---------------------------- MODULE Spec2Model ----------------------------
(***************************************************************************)
(* create-dx-scriptapp: the file service (copyRecursive,                   *)
(* updateTemplatePlaceholders, formatProjectName, resolvePath), the        *)
(* template registry, the prompts, the logger and the orchestrator         *)
(* (createScriptApp run from index.ts).                                    *)
(*                                                                         *)
(* A string is a sequence of one-character strings; a path is a sequence   *)
(* of entry names; the filesystem is a function from the existing paths    *)
(* to their nodes.                                                         *)
(***************************************************************************)
EXTENDS Integers, Sequences, FiniteSets, TLC

VARIABLES
    fs,         \* the filesystem: path -> [kind, content]
    events,     \* everything observable the program did, in order
    mapping,    \* file-service driver: the (scriptAppName, placeholders) arguments in use
    ops,        \* file-service driver: one record per service call made
    pc,         \* position of the run ("driver" under SpecFile)
    argv,       \* the run's command line: [name, template, path]
    cwd,        \* process.cwd()
    run         \* createScriptApp's locals and the process status

vars == <<fs, events, mapping, ops, pc, argv, cwd, run>>

----------------------------------------------------------------------------
(* Strings                                                                 *)

SCRIPT_APP_NAME == <<"_","_","S","C","R","I","P","T","_","A","P","P","_","N","A","M","E","_","_">>
CONTENT_ROOT == <<"_","_","C","O","N","T","E","N","T","_","R","O","O","T","_","_">>
WCM_CONTENT_NAME == <<"_","_","W","C","M","_","C","O","N","T","E","N","T","_","N","A","M","E","_","_">>
ROOT_IDENTIFIER == <<"_","_","R","O","O","T","_","I","D","E","N","T","I","F","I","E","R","_","_">>
DistValue == <<".","/","d","i","s","t">>

package_json == <<"p","a","c","k","a","g","e",".","j","s","o","n">>
node_modules == <<"n","o","d","e","_","m","o","d","u","l","e","s">>

UpperCase == <<"A","B","C","D","E","F","G","H","I","J","K","L","M",
               "N","O","P","Q","R","S","T","U","V","W","X","Y","Z">>
LowerCase == <<"a","b","c","d","e","f","g","h","i","j","k","l","m",
               "n","o","p","q","r","s","t","u","v","w","x","y","z">>
WhiteSpace == {" ", "\t", "\n"}

\* String.prototype.toLowerCase, one character
ToLowerChar(c) ==
    IF \E i \in 1..Len(UpperCase) : UpperCase[i] = c
    THEN LowerCase[CHOOSE i \in 1..Len(UpperCase) : UpperCase[i] = c]
    ELSE c

ToLowerCase(s) == [i \in 1..Len(s) |-> ToLowerChar(s[i])]

\* String.prototype.trim
Trim(s) ==
    LET keep == {i \in 1..Len(s) : s[i] \notin WhiteSpace}
    IN  IF keep = {} THEN <<>>
        ELSE SubSeq(s, CHOOSE i \in keep : \A j \in keep : i <= j,
                       CHOOSE i \in keep : \A j \in keep : j <= i)

\* s.replace(/\s+/g, '-'): every maximal run of whitespace becomes one hyphen
RECURSIVE HyphenateFrom(_, _)
HyphenateFrom(s, i) ==
    IF i > Len(s) THEN <<>>
    ELSE IF s[i] \in WhiteSpace
         THEN IF i > 1 /\ s[i-1] \in WhiteSpace
              THEN HyphenateFrom(s, i + 1)
              ELSE <<"-">> \o HyphenateFrom(s, i + 1)
         ELSE <<s[i]>> \o HyphenateFrom(s, i + 1)

HyphenateSpaces(s) == HyphenateFrom(s, 1)

\* String.prototype.includes
Includes(str, search) ==
    \E i \in 1..(Len(str) - Len(search) + 1) :
        SubSeq(str, i, i + Len(search) - 1) = search

MatchAt(str, pattern, i) ==
    /\ i + Len(pattern) - 1 <= Len(str)
    /\ SubSeq(str, i, i + Len(pattern) - 1) = pattern

\* the grave accent character, which a TLA+ string cannot hold
BackTick == "U+0060"

\* ECMAScript GetSubstitution for a regular expression with no capture groups:
\* in the replacement text $$ is a dollar sign, $& the matched text, $ and a grave
\* accent the text before the match, $ and an apostrophe the text after it; any
\* other $ stands for itself.
GetSubstitution(matched, str, position, replacement) ==
    LET before == SubSeq(str, 1, position - 1)
        after == SubSeq(str, position + Len(matched), Len(str))
        RECURSIVE Expand(_)
        Expand(i) ==
            IF i > Len(replacement) THEN <<>>
            ELSE IF replacement[i] = "$" /\ i < Len(replacement)
                 THEN CASE replacement[i+1] = "$" -> <<"$">> \o Expand(i + 2)
                        [] replacement[i+1] = "&" -> matched \o Expand(i + 2)
                        [] replacement[i+1] = BackTick -> before \o Expand(i + 2)
                        [] replacement[i+1] = "'" -> after \o Expand(i + 2)
                        [] OTHER -> <<"$">> \o Expand(i + 1)
                 ELSE <<replacement[i]>> \o Expand(i + 1)
    IN  Expand(1)

\* str.replace(new RegExp(escaped placeholder, 'g'), value): the placeholder is
\* escaped, so it matches literally; matches are found left to right and do not
\* overlap; each is replaced by the substitution of value.
StrReplaceAll(str, placeholder, value) ==
    LET RECURSIVE From(_)
        From(i) ==
            IF i > Len(str) THEN <<>>
            ELSE IF Len(placeholder) > 0 /\ MatchAt(str, placeholder, i)
                 THEN GetSubstitution(placeholder, str, i, value)
                          \o From(i + Len(placeholder))
                 ELSE <<str[i]>> \o From(i + 1)
    IN  From(1)

----------------------------------------------------------------------------
(* Placeholder mapping and the three replacement loops                     *)

Pair(placeholder, value) == [placeholder |-> placeholder, value |-> value]

\* allPlaceholders: the three built-in pairs, then the caller's
AllPlaceholders(scriptAppName, placeholders) ==
    << Pair(SCRIPT_APP_NAME, scriptAppName),
       Pair(CONTENT_ROOT, DistValue),
       Pair(WCM_CONTENT_NAME, scriptAppName) >> \o placeholders

\* for (const {placeholder, value} of allPlaceholders)
\*   if (s.includes(placeholder)) { s = s.replace(..., value); hit = true }
\* from entry i on; gives the final string and whether any entry was included.
RECURSIVE ReplaceEach(_, _, _, _)
ReplaceEach(s, all, i, hit) ==
    IF i > Len(all) THEN [text |-> s, hit |-> hit]
    ELSE IF Includes(s, all[i].placeholder)
         THEN ReplaceEach(StrReplaceAll(s, all[i].placeholder, all[i].value), all, i + 1, TRUE)
         ELSE ReplaceEach(s, all, i + 1, hit)

Compared(old, new) == [text |-> new, updated |-> new # old]
\* a flag that is set whether or not an entry was included
FlaggedAlways(r) == [text |-> r.text, updated |-> TRUE]
Flagged(r) == [text |-> r.text, updated |-> r.hit]

\* the loop over the dx-deploy script; "updated" is decided by comparing the result
DeployLoop(script, all) == Compared(script, ReplaceEach(script, all, 1, FALSE).text)

\* the loop over one string field in replaceInObject; valueUpdated is the flag
ValueLoop(value, all) == Flagged(ReplaceEach(value, all, 1, FALSE))

\* the loop over the content of a file that is not package.json; contentUpdated
ContentLoop(content, all) == Flagged(ReplaceEach(content, all, 1, FALSE))

----------------------------------------------------------------------------
(* The manifest.  A JSON value is a record: [ty |-> "str", s], [ty |->     *)
(* "num", n], [ty |-> "bool", b], [ty |-> "null"], [ty |-> "arr", vals],   *)
(* [ty |-> "obj", keys, vals] (keys in property order).  A file's content  *)
(* is [t |-> "text", chars] or, for a file holding a JSON document,        *)
(* [t |-> "json", doc, indent]; JSON.parse and JSON.stringify are the      *)
(* runtime's, taken as reading and producing that document.                *)

JStr(s) == [ty |-> "str", s |-> s]
JNum(n) == [ty |-> "num", n |-> n]
JNull == [ty |-> "null"]
JArr(vals) == [ty |-> "arr", vals |-> vals]
JObj(keys, vals) == [ty |-> "obj", keys |-> keys, vals |-> vals]

Text(chars) == [t |-> "text", chars |-> chars]
Json(doc, indent) == [t |-> "json", doc |-> doc, indent |-> indent]

\* JSON.parse(content): a SyntaxError when the content is no JSON document
JSONParse(content) ==
    IF content.t = "json" THEN [ok |-> TRUE, value |-> content.doc]
    ELSE [ok |-> FALSE, value |-> JNull]

\* JSON.stringify(pkg, null, 2)
JSONStringify2(pkg) == Json(pkg, 2)

\* JavaScript truthiness of a JSON value
Truthy(v) ==
    CASE v.ty = "str" -> v.s # <<>>
      [] v.ty = "num" -> v.n # 0
      [] v.ty = "bool" -> v.b
      [] v.ty = "null" -> FALSE
      [] OTHER -> TRUE

HasKey(obj, key) == obj.ty = "obj" /\ \E i \in 1..Len(obj.keys) : obj.keys[i] = key
KeyIndex(obj, key) == CHOOSE i \in 1..Len(obj.keys) : obj.keys[i] = key
\* obj[key] for a key the object has
Get(obj, key) == obj.vals[KeyIndex(obj, key)]
\* obj[key] = v
Put(obj, key, v) == [obj EXCEPT !.vals[KeyIndex(obj, key)] = v]

\* replaceInObject: for (const key in obj): a string value goes through the loop
\* and is stored back when valueUpdated; an object value that is not null (an
\* array is one: typeof [] === 'object', and for-in gives its indices) is walked
\* recursively; anything else is left.  Gives the walked object and whether
\* "updated" was set.
StoreString(value, l) ==
    [obj |-> IF l.updated THEN JStr(l.text) ELSE value, updated |-> l.updated]
\* a store that rebuilds the walked value as an object, as {...value} does: an
\* array comes back as an object with its indices for keys
StoreFieldSpread(r, i, o) ==
    [obj |-> [r.obj EXCEPT !.vals[i] =
                 IF o.obj.ty = "arr"
                 THEN JObj([j \in 1..Len(o.obj.vals) |-> "index"], o.obj.vals)
                 ELSE o.obj],
     updated |-> r.updated \/ o.updated]
StoreField(r, i, o) ==
    [obj |-> [r.obj EXCEPT !.vals[i] = o.obj], updated |-> r.updated \/ o.updated]

\* a for-in loop that goes into objects only, arrays left as they are
RECURSIVE ReplaceInFieldsNoArrays(_, _, _)
ReplaceInFieldsNoArrays(r, all, i) ==
    IF i > Len(r.obj.vals) THEN r
    ELSE IF r.obj.vals[i].ty = "str"
         THEN ReplaceInFieldsNoArrays(
                  StoreField(r, i, StoreString(r.obj.vals[i], ValueLoop(r.obj.vals[i].s, all))),
                  all, i + 1)
         ELSE IF r.obj.vals[i].ty = "obj"
              THEN ReplaceInFieldsNoArrays(
                       StoreField(r, i, ReplaceInFieldsNoArrays(
                                            [obj |-> r.obj.vals[i], updated |-> FALSE], all, 1)),
                       all, i + 1)
              ELSE ReplaceInFieldsNoArrays(r, all, i + 1)

RECURSIVE ReplaceInObject(_, _)
RECURSIVE ReplaceInFields(_, _, _)
\* the for-in loop from the i-th property on; r = [obj, updated] so far
ReplaceInFields(r, all, i) ==
    IF i > Len(r.obj.vals) THEN r
    ELSE IF r.obj.vals[i].ty = "str"
         THEN ReplaceInFields(
                  StoreField(r, i, StoreString(r.obj.vals[i], ValueLoop(r.obj.vals[i].s, all))),
                  all, i + 1)
         ELSE IF r.obj.vals[i].ty \in {"obj", "arr"}
              THEN ReplaceInFields(StoreField(r, i, ReplaceInObject(r.obj.vals[i], all)),
                                   all, i + 1)
              ELSE ReplaceInFields(r, all, i + 1)

ReplaceInObject(obj, all) == ReplaceInFields([obj |-> obj, updated |-> FALSE], all, 1)

\* pkg.scripts['dx-deploy'] = newScript, when it differs
StoreScript(pkg, l) ==
    [pkg |-> IF l.updated
             THEN Put(pkg, "scripts", Put(Get(pkg, "scripts"), "dx-deploy", JStr(l.text)))
             ELSE pkg,
     updated |-> l.updated, err |-> "none"]

\* the body of the dedicated step, for the truthy value script of scripts['dx-deploy']
DeployScript(pkg, script, all) ==
    IF script.ty = "str" THEN StoreScript(pkg, DeployLoop(script.s, all))
    ELSE IF script.ty = "arr" /\ \A p \in 1..Len(all) :
               JStr(all[p].placeholder) \notin {script.vals[k] : k \in 1..Len(script.vals)}
    THEN [pkg |-> pkg, updated |-> FALSE, err |-> "none"]
    ELSE [pkg |-> pkg, updated |-> FALSE, err |-> "TypeError"]

\* if (pkg.scripts && pkg.scripts['dx-deploy']) { ... }: the dedicated step.
\* pkg is the parsed document.  Gives [pkg, updated, err]: reading a property
\* of null, or calling includes on a value that has none (a number, true, an
\* object), is a TypeError.
DeployStep(pkg, all) ==
    IF pkg.ty = "null"
    THEN [pkg |-> pkg, updated |-> FALSE, err |-> "TypeError"]
    ELSE IF ~(HasKey(pkg, "scripts") /\ Truthy(Get(pkg, "scripts"))
              /\ HasKey(Get(pkg, "scripts"), "dx-deploy")
              /\ Truthy(Get(Get(pkg, "scripts"), "dx-deploy")))
    THEN [pkg |-> pkg, updated |-> FALSE, err |-> "none"]
    ELSE DeployScript(pkg, Get(Get(pkg, "scripts"), "dx-deploy"), all)

\* the package.json branch of processFile, from the parsed document to the
\* document to write: the dedicated step, then replaceInObject(pkg)
Combined(d, o) == [pkg |-> o.obj, updated |-> d.updated \/ o.updated, err |-> "none"]

\* replaceInObject(pkg) after the dedicated step's result d
GenericStep(d, all) ==
    IF d.err # "none" THEN d
    ELSE IF d.pkg.ty \notin {"obj", "arr"} THEN d
    ELSE Combined(d, ReplaceInObject(d.pkg, all))

ManifestPolicy(pkg, all) == GenericStep(DeployStep(pkg, all), all)

----------------------------------------------------------------------------
(* Filesystem primitives (node:fs, node:path).  An operation works on a    *)
(* record st = [fs, ev, err]: the filesystem, the events so far and the    *)
(* exception being thrown ("none" while there is none).                    *)

MaxDepth == 6   \* longest path the filesystem accepts (stands for PATH_MAX)

Dir == [kind |-> "dir", content |-> Text(<<>>)]
File(content) == [kind |-> "file", content |-> content]

Ev(ev, msg, path) == [ev |-> ev, msg |-> msg, path |-> path]

Exists(f, path) == path \in DOMAIN f
IsDirectory(f, path) == Exists(f, path) /\ f[path].kind = "dir"
IsFile(f, path) == Exists(f, path) /\ f[path].kind = "file"
Parent(path) == SubSeq(path, 1, Len(path) - 1)
Basename(path) == path[Len(path)]
IsPrefix(a, b) == Len(a) <= Len(b) /\ SubSeq(b, 1, Len(a)) = a

WithNode(f, path, node) ==
    [p \in DOMAIN f \cup {path} |-> IF p = path THEN node ELSE f[p]]

Throw(st, err) == [st EXCEPT !.err = err]
Emit(st, e) == [st EXCEPT !.ev = Append(@, e)]

\* every entry name, in the order readdirSync lists the entries of a directory
NameOrder ==
    << <<".","e","n","v">>,
       <<".","e","n","v",".","l","o","c","a","l">>,
       <<"A","p","p",".","t","s","x">>,
       <<"R","E","A","D","M","E">>,
       <<"_","_","c","o","n","t","e","n","t","_","r","o","o","t","_","_">>,
       <<"$","&">>,
       <<"a","-","b">>,
       <<"a","p","p">>,
       <<"i","m","a","g","e",".","p","n","g">>,
       <<"i","n","d","e","x",".","h","t","m","l">>,
       <<"m","y","-","a","p","p">>,
       node_modules,
       <<"n","o","t","e","s",".","t","x","t">>,
       <<"o","u","t">>,
       package_json,
       <<"p","k","g">>,
       <<"r","e","a","c","t","-","j","s">>,
       <<"r","e","a","c","t","-","t","s">>,
       <<"s","r","c">>,
       <<"t","e","m","p","l","a","t","e","s">>,
       <<"w","o","r","k">> >>

\* fs.readdirSync(dir)
Readdir(f, dir) == SelectSeq(NameOrder, LAMBDA n : Exists(f, Append(dir, n)))

\* fs.mkdirSync(path): not recursive
Mkdir(st, path) ==
    IF Len(path) > MaxDepth THEN Throw(st, "ENAMETOOLONG")
    ELSE IF Exists(st.fs, path) THEN Throw(st, "EEXIST")
    ELSE IF ~Exists(st.fs, Parent(path)) THEN Throw(st, "ENOENT")
    ELSE IF ~IsDirectory(st.fs, Parent(path)) THEN Throw(st, "ENOTDIR")
    ELSE Emit([st EXCEPT !.fs = WithNode(@, path, Dir)], Ev("mkdir", "", path))

\* fs.mkdirSync(path, {recursive: true}) for a path that does not exist
RECURSIVE MkdirRecursive(_, _)
MkdirRecursive(st, path) ==
    IF st.err # "none" \/ IsDirectory(st.fs, path) THEN st
    ELSE IF Exists(st.fs, path) THEN Throw(st, "ENOTDIR")
    ELSE IF Len(path) > MaxDepth THEN Throw(st, "ENAMETOOLONG")
    ELSE LET up == MkdirRecursive(st, Parent(path))
         IN  IF up.err # "none" THEN up
             ELSE Emit([up EXCEPT !.fs = WithNode(@, path, Dir)], Ev("mkdir", "", path))

\* fs.copyFileSync(src, dest): dest is created or overwritten
CopyFile(st, src, dest) ==
    IF Len(dest) > MaxDepth THEN Throw(st, "ENAMETOOLONG")
    ELSE IF ~Exists(st.fs, Parent(dest)) THEN Throw(st, "ENOENT")
    ELSE IF ~IsDirectory(st.fs, Parent(dest)) THEN Throw(st, "ENOTDIR")
    ELSE IF IsDirectory(st.fs, dest) THEN Throw(st, "EISDIR")
    ELSE Emit([st EXCEPT !.fs = WithNode(@, dest, File(st.fs[src].content))],
              Ev("copyFile", "", dest))

\* fs.readFileSync(path, 'utf-8'): the event; the caller takes the content
ReadFile(st, path) == Emit(st, Ev("readFile", "", path))

\* a writeFileSync that leaves its output beside the file, under a new name
WriteFileAside(st, path, content) ==
    Emit([st EXCEPT !.fs = WithNode(@, Parent(path) \o <<Basename(path) \o <<".","n","e","w">>>>,
                                    File(content))],
         Ev("writeFile", "", path))

\* fs.writeFileSync(path, content) on an existing file
WriteFile(st, path, content) ==
    Emit([st EXCEPT !.fs = WithNode(@, path, File(content))], Ev("writeFile", "", path))

\* path.extname: from the last dot of the base name, unless that dot is the
\* name's first character or there is none
Extname(path) ==
    LET name == Basename(path)
        dots == {i \in 1..Len(name) : name[i] = "."}
        last == CHOOSE i \in dots : \A j \in dots : j <= i
    IN  IF dots = {} THEN <<>>
        ELSE IF last = 1 THEN <<>>
        ELSE IF name = <<".", ".">> THEN <<>>
        ELSE SubSeq(name, last, Len(name))

----------------------------------------------------------------------------
(* DefaultFileSystemService                                                *)

\* logger.info / logger.error as seen by the services: the diagnostic
LogInfo(st, msg, path) == Emit(st, Ev("info", msg, path))
LogError(st, msg, path) == Emit(st, Ev("error", msg, path))

\* the logger's log file, ~/.dx-script-app/logs/logger.log
LogFile == << <<"l","o","g","g","e","r",".","l","o","g">> >>

\* a logSavingInfo that points at the log file whatever the error count
LogSavingInfoAlways(st, errorCount) == LogInfo(st, "Full logs can be found at:", LogFile)

\* logSavingInfo() of a logger whose error count is errorCount
LogSavingInfo(st, errorCount) ==
    IF errorCount > 0 THEN LogInfo(st, "Full logs can be found at:", LogFile) ELSE st

\* an existence check that only a directory passes
DirectoryExistsOnly(f, dirPath) == IsDirectory(f, dirPath)

DirectoryExists(f, dirPath) == Exists(f, dirPath)

CreateDirectory(st, dirPath) ==
    IF Exists(st.fs, dirPath) THEN st
    ELSE LET made == MkdirRecursive(st, dirPath)
         IN  IF made.err # "none" THEN made
             ELSE LogInfo(made, "Created directory:", dirPath)

\* a copy that makes the subdirectories of src but does not go into them
CopyTopLevel(st, src, dest) ==
    IF st.err # "none" THEN st
    ELSE IF ~Exists(st.fs, src) THEN Throw(st, "ENOENT")
    ELSE IF IsDirectory(st.fs, src)
    THEN LET made == IF ~Exists(st.fs, dest) THEN Mkdir(st, dest) ELSE st
             items == Readdir(made.fs, src)
             RECURSIVE Each(_, _)
             Each(s, i) ==
                 IF i > Len(items) \/ s.err # "none" THEN s
                 ELSE IF IsDirectory(s.fs, Append(src, items[i]))
                      THEN Each(IF Exists(s.fs, Append(dest, items[i])) THEN s
                                ELSE Mkdir(s, Append(dest, items[i])), i + 1)
                      ELSE Each(CopyFile(s, Append(src, items[i]), Append(dest, items[i])),
                                i + 1)
         IN  IF made.err # "none" THEN made
             ELSE Each(Emit(made, Ev("readdir", "", src)), 1)
    ELSE CopyFile(st, src, dest)

RECURSIVE CopyRecursive(_, _, _)
CopyRecursive(st, src, dest) ==
    IF st.err # "none" THEN st
    ELSE IF ~Exists(st.fs, src) THEN Throw(st, "ENOENT")
    ELSE IF IsDirectory(st.fs, src)
    THEN LET made == IF ~Exists(st.fs, dest) THEN Mkdir(st, dest) ELSE st
             items == Readdir(made.fs, src)
             RECURSIVE Each(_, _)
             Each(s, i) ==
                 IF i > Len(items) \/ s.err # "none" THEN s
                 ELSE Each(CopyRecursive(s, Append(src, items[i]), Append(dest, items[i])),
                           i + 1)
         IN  IF made.err # "none" THEN made
             ELSE Each(Emit(made, Ev("readdir", "", src)), 1)
    ELSE CopyFile(st, src, dest)

FormatProjectName(name) == HyphenateSpaces(ToLowerCase(Trim(name)))

TextExtensions ==
    { <<".","j","s">>, <<".","t","s">>, <<".","j","s","x">>, <<".","t","s","x">>,
      <<".","j","s","o","n">>, <<".","h","t","m","l">>, <<".","c","s","s">>,
      <<".","m","d">>, <<".","t","x","t">>, <<".","e","n","v">>,
      <<".","l","o","c","a","l">> }

\* a check that looks for an extension anywhere in the file's name
IsTextFileLoose(filePath) ==
    \E e \in TextExtensions : Includes(Basename(filePath), e)

IsTextFile(filePath) == Extname(filePath) \in TextExtensions

\* if (updated) { writeFileSync(filePath, JSON.stringify(pkg, null, 2)); logger.info(...) }
WriteManifest(rd, filePath, m) ==
    IF m.err # "none" THEN Throw(rd, m.err)
    ELSE IF m.updated
         THEN LogInfo(WriteFile(rd, filePath, JSONStringify2(m.pkg)),
                      "Updated placeholders in:", filePath)
         ELSE rd

\* if (contentUpdated) { writeFileSync(filePath, content, 'utf-8'); logger.info(...) }
WriteContent(rd, filePath, l) ==
    IF l.updated
    THEN LogInfo(WriteFile(rd, filePath, Text(l.text)), "Updated placeholders in:", filePath)
    ELSE rd

\* a processFile that leaves a package.json it cannot parse and goes on
ProcessContentSkipping(rd, filePath, content, all) ==
    IF Basename(filePath) = package_json
    THEN IF ~JSONParse(content).ok THEN rd
         ELSE WriteManifest(rd, filePath, ManifestPolicy(JSONParse(content).value, all))
    ELSE WriteContent(rd, filePath, ContentLoop(content.chars, all))

\* processFile(filePath) once the file is read: rd is the state after the read
ProcessContent(rd, filePath, content, all) ==
    IF Basename(filePath) = package_json
    THEN IF ~JSONParse(content).ok THEN Throw(rd, "SyntaxError")
         ELSE WriteManifest(rd, filePath, ManifestPolicy(JSONParse(content).value, all))
    ELSE WriteContent(rd, filePath, ContentLoop(content.chars, all))

\* processFile(filePath)
ProcessFile(st, filePath, all) ==
    IF ~IsTextFile(filePath) THEN st
    ELSE ProcessContent(ReadFile(st, filePath), filePath, st.fs[filePath].content, all)

\* a walk that skips no entry
RECURSIVE WalkAll(_, _, _)
WalkAll(st, dir, all) ==
    LET entries == Readdir(st.fs, dir)
        RECURSIVE Each(_, _)
        Each(s, i) ==
            IF i > Len(entries) \/ s.err # "none" THEN s
            ELSE LET fullPath == Append(dir, entries[i])
                 IN  IF IsDirectory(s.fs, fullPath)
                     THEN Each(WalkAll(s, fullPath, all), i + 1)
                     ELSE IF IsFile(s.fs, fullPath)
                          THEN Each(ProcessFile(s, fullPath, all), i + 1)
                          ELSE Each(s, i + 1)
    IN  IF ~Exists(st.fs, dir) THEN Throw(st, "ENOENT")
        ELSE IF ~IsDirectory(st.fs, dir) THEN Throw(st, "ENOTDIR")
        ELSE Each(Emit(st, Ev("readdir", "", dir)), 1)

\* walk(dir)
RECURSIVE Walk(_, _, _)
Walk(st, dir, all) ==
    LET entries == Readdir(st.fs, dir)
        RECURSIVE Each(_, _)
        Each(s, i) ==
            IF i > Len(entries) \/ s.err # "none" THEN s
            ELSE LET fullPath == Append(dir, entries[i])
                 IN  IF entries[i] = node_modules THEN Each(s, i + 1)
                     ELSE IF IsDirectory(s.fs, fullPath)
                          THEN Each(Walk(s, fullPath, all), i + 1)
                          ELSE IF IsFile(s.fs, fullPath)
                               THEN Each(ProcessFile(s, fullPath, all), i + 1)
                               ELSE Each(s, i + 1)
    IN  IF ~Exists(st.fs, dir) THEN Throw(st, "ENOENT")
        ELSE IF ~IsDirectory(st.fs, dir) THEN Throw(st, "ENOTDIR")
        ELSE Each(Emit(st, Ev("readdir", "", dir)), 1)

UpdateTemplatePlaceholders(st, dirPath, scriptAppName, placeholders) ==
    Walk(st, dirPath, AllPlaceholders(scriptAppName, placeholders))

----------------------------------------------------------------------------
(* Inputs: trees, contents, project names                                  *)

MaxFiles == 2   \* files in a generated tree
MaxOps == 3     \* service calls the file-service driver makes

n_pkg == <<"p","k","g">>
n_templates == <<"t","e","m","p","l","a","t","e","s">>
n_react_ts == <<"r","e","a","c","t","-","t","s">>
n_react_js == <<"r","e","a","c","t","-","j","s">>
n_work == <<"w","o","r","k">>
n_out == <<"o","u","t">>
n_src == <<"s","r","c">>
n_index_html == <<"i","n","d","e","x",".","h","t","m","l">>
n_image_png == <<"i","m","a","g","e",".","p","n","g">>
n_README == <<"R","E","A","D","M","E">>
n_env == <<".","e","n","v">>
n_env_local == <<".","e","n","v",".","l","o","c","a","l">>
n_App_tsx == <<"A","p","p",".","t","s","x">>
n_notes_txt == <<"n","o","t","e","s",".","t","x","t">>

\* project names: "My App", "__CONTENT_ROOT__", "$&"
NameMyApp == <<"M","y"," ","A","p","p">>
NameToken == CONTENT_ROOT
NameDollar == <<"$","&">>
ProjectNames == {NameMyApp, NameToken, NameDollar}

\* caller-supplied placeholder lists
ExtraLists ==
    { <<>>,
      << Pair(ROOT_IDENTIFIER, <<"i","d","-","1">>), Pair(CONTENT_ROOT, <<"x">>) >> }

T_app == Text(<<"<">> \o SCRIPT_APP_NAME \o <<">">>)
T_twice == Text(SCRIPT_APP_NAME \o <<",">> \o SCRIPT_APP_NAME)
T_wcm == Text(WCM_CONTENT_NAME \o <<"\n">>)
T_root == Text(CONTENT_ROOT \o <<":">> \o ROOT_IDENTIFIER)
T_plain == Text(<<"h","i">>)

M_deploy ==
    Json(JObj(<<"name", "scripts">>,
              << JStr(SCRIPT_APP_NAME),
                 JObj(<<"dx-deploy">>,
                      << JStr(<<"t"," ">> \o CONTENT_ROOT \o <<" ">> \o WCM_CONTENT_NAME) >>) >>), 0)
M_nested ==
    Json(JObj(<<"name", "nested", "scripts", "version">>,
              << JStr(<<"o">>),
                 JObj(<<"inner">>, << JObj(<<"value">>, << JStr(WCM_CONTENT_NAME) >>) >>),
                 JObj(<<>>, <<>>),
                 JNum(1) >>), 0)
M_array ==
    Json(JObj(<<"keywords", "private">>,
              << JArr(<< JStr(SCRIPT_APP_NAME), JStr(<<"x">>) >>), JNull >>),0)
M_plain == Json(JObj(<<"name", "version">>, << JStr(<<"x">>), JNum(1) >>), 0)
M_bad == Text(<<"{">>)
M_badscript == Json(JObj(<<"scripts">>, << JObj(<<"dx-deploy">>, << JNum(5) >>) >>), 2)

Entry(rel, content) == [rel |-> rel, content |-> content]

\* the files a generated tree is made of
Catalog ==
    { Entry(<<n_index_html>>, T_app),
      Entry(<<n_index_html>>, T_plain),
      Entry(<<n_image_png>>, T_app),
      Entry(<<n_README>>, T_app),
      Entry(<<n_env>>, T_app),
      Entry(<<n_env_local>>, T_wcm),
      Entry(<<n_notes_txt>>, T_wcm),
      Entry(<<n_src, n_App_tsx>>, T_twice),
      Entry(<<n_src, n_App_tsx>>, T_root),
      Entry(<<node_modules, n_notes_txt>>, T_app),
      Entry(<<n_src, node_modules, n_notes_txt>>, T_app),
      Entry(<<package_json>>, M_deploy),
      Entry(<<package_json>>, M_nested),
      Entry(<<package_json>>, M_array),
      Entry(<<package_json>>, M_plain),
      Entry(<<package_json>>, M_bad),
      Entry(<<package_json>>, M_badscript) }

\* the sets of at most k catalog files, no two at one path
RECURSIVE FileSetsUpTo(_)
FileSetsUpTo(k) ==
    IF k = 0 THEN {{}}
    ELSE LET smaller == FileSetsUpTo(k - 1)
         IN  smaller \cup
             UNION {{fsel \cup {e} : e \in {c \in Catalog : \A a \in fsel : a.rel # c.rel}} :
                        fsel \in smaller}

FileSets == FileSetsUpTo(MaxFiles)

Prefixes(path) == {SubSeq(path, 1, k) : k \in 0..Len(path)}

\* the tree rooted at root that holds exactly the files of fsel
TreePaths(root, fsel) ==
    UNION {Prefixes(root)} \cup UNION {{root \o q : q \in Prefixes(e.rel)} : e \in fsel}

Tree(root, fsel) ==
    [p \in TreePaths(root, fsel) |->
        IF \E e \in fsel : root \o e.rel = p
        THEN File((CHOOSE e \in fsel : root \o e.rel = p).content)
        ELSE Dir]

Merge(f, g) == [p \in DOMAIN f \cup DOMAIN g |-> IF p \in DOMAIN g THEN g[p] ELSE f[p]]

TemplatesDir == <<n_pkg, n_templates>>
SrcRoot == <<n_pkg, n_templates, n_react_ts>>
WorkDir == <<n_work>>
OutRoot == <<n_work, n_out>>

Idle == [status |-> "idle"]

----------------------------------------------------------------------------
(* SpecFile: the file service called by a driver, as its unit tests call   *)
(* it: any of createDirectory, copyRecursive, updateTemplatePlaceholders,  *)
(* on a generated tree, with one placeholder mapping per behaviour.        *)

St0 == [fs |-> fs, ev |-> events, err |-> "none"]

Op(name, src, dest, st) ==
    [op |-> name, src |-> src, dest |-> dest, pre |-> fs, post |-> st.fs,
     from |-> Len(events) + 1, to |-> Len(st.ev), err |-> st.err]

InitFile ==
    /\ \E fsel \in FileSets : fs = Merge(Tree(WorkDir, {}), Tree(SrcRoot, fsel))
    /\ \E n \in ProjectNames, x \in ExtraLists : mapping = [name |-> n, extra |-> x]
    /\ events = <<>>
    /\ ops = <<>>
    /\ pc = "driver"
    /\ argv = Idle /\ cwd = WorkDir /\ run = Idle

Record(name, src, dest, st) ==
    /\ fs' = st.fs
    /\ events' = st.ev
    /\ ops' = Append(ops, Op(name, src, dest, st))
    /\ UNCHANGED <<mapping, pc, argv, cwd, run>>

CallCreateDirectory ==
    /\ pc = "driver" /\ Len(ops) < MaxOps
    /\ ~Exists(fs, OutRoot)
    /\ Record("createDirectory", <<>>, OutRoot, CreateDirectory(St0, OutRoot))

CallCopyRecursive ==
    /\ pc = "driver" /\ Len(ops) < MaxOps
    /\ Record("copyRecursive", SrcRoot, OutRoot, CopyRecursive(St0, SrcRoot, OutRoot))

CallUpdateTemplatePlaceholders ==
    /\ pc = "driver" /\ Len(ops) < MaxOps
    /\ \E root \in {SrcRoot, OutRoot} :
        /\ IsDirectory(fs, root)
        /\ Record("updateTemplatePlaceholders", <<>>, root,
                  UpdateTemplatePlaceholders(St0, root, mapping.name, mapping.extra))

NextFile ==
    \/ CallCreateDirectory
    \/ CallCopyRecursive
    \/ CallUpdateTemplatePlaceholders

SpecFile == InitFile /\ [][NextFile]_vars

----------------------------------------------------------------------------
(* resolvePath, the template registry, the prompt's validator              *)

\* what JavaScript's undefined is here: no string, and equal to none
Undefined == <<"undefined">>

\* the segments of a path string, split at each "/"
RECURSIVE SplitFrom(_, _, _)
SplitFrom(s, i, cur) ==
    IF i > Len(s) THEN <<cur>>
    ELSE IF s[i] = "/" THEN <<cur>> \o SplitFrom(s, i + 1, <<>>)
         ELSE SplitFrom(s, i + 1, Append(cur, s[i]))

RECURSIVE Normalize(_, _, _)
Normalize(base, segs, i) ==
    IF i > Len(segs) THEN base
    ELSE IF segs[i] \in {<<>>, <<".">>} THEN Normalize(base, segs, i + 1)
    ELSE IF segs[i] = <<".", ".">>
         THEN Normalize(IF base = <<>> THEN base ELSE Parent(base), segs, i + 1)
         ELSE Normalize(Append(base, segs[i]), segs, i + 1)

\* path.resolve(relativePath) in the working directory dir
ResolvePath(dir, relativePath) ==
    Normalize(IF relativePath # <<>> /\ relativePath[1] = "/" THEN <<>> ELSE dir,
              SplitFrom(relativePath, 1, <<>>), 1)

\* getAvailableTemplates(): the directories among the entries of the templates directory
GetAvailableTemplates(f) ==
    SelectSeq(Readdir(f, TemplatesDir), LAMBDA n : IsDirectory(f, Append(TemplatesDir, n)))

\* getTemplatePath(name)
GetTemplatePath(name) == Append(TemplatesDir, name)

NameChars ==
    {UpperCase[i] : i \in 1..Len(UpperCase)} \cup {LowerCase[i] : i \in 1..Len(LowerCase)}
    \cup {"0", "1", "2", "3", "4", "5", "6", "7", "8", "9", "_", "-"}

\* validateScriptAppName(name) returns true
ValidateScriptAppName(name) ==
    /\ name # Undefined /\ name # <<>>
    /\ \A i \in 1..Len(name) : name[i] \in NameChars

Range(seq) == {seq[i] : i \in 1..Len(seq)}

----------------------------------------------------------------------------
(* Spec: one run of the tool, index.ts calling createScriptApp             *)

MaxAppFiles == 1   \* files in the generated react-ts template of a run

n_my_app == <<"m","y","-","a","p","p">>
n_app == <<"a","p","p">>

NameSpaced == <<"A", " ", "\t", "b">>
ArgNames == {Undefined, <<>>, <<" ">>, NameMyApp, NameDollar, NameSpaced}
ArgTemplates == {Undefined, <<>>, n_react_ts, <<"n","o">>}
ArgPaths == {Undefined, n_out}
\* the name prompt gives a name its validator accepts, or undefined when cancelled
NameResponses == {r \in {Undefined, n_app, NameToken} : r = Undefined \/ ValidateScriptAppName(r)}
\* Date.now(), in decimal
Timestamp == <<"1","7">>

\* what the working directory holds before the run
WorkTrees ==
    { Tree(WorkDir, {}),
      Tree(WorkDir \o <<n_my_app>>, {}),
      Tree(WorkDir, {Entry(<<n_my_app>>, T_plain)}) }

\* the react-ts templates of a run: the small generated ones, and one with a
\* package.json that does not parse, after index.html and ahead of a file in src
BrokenTemplate ==
    {Entry(<<n_index_html>>, T_app), Entry(<<package_json>>, M_bad),
     Entry(<<n_src, n_App_tsx>>, T_twice)}
AppFileSets == FileSetsUpTo(MaxAppFiles) \cup {BrokenTemplate}

Install(fsel) ==
    Merge(Tree(TemplatesDir, {Entry(<<n_README>>, T_plain)}),
          Merge(Tree(TemplatesDir \o <<n_react_js>>, {Entry(<<n_index_html>>, T_app)}),
                Tree(SrcRoot, fsel)))

Run0 ==
    [status |-> "running", code |-> 0, appName |-> Undefined, template |-> Undefined,
     available |-> <<>>, finalPath |-> <<>>, errorCount |-> 0, err |-> "none"]

Init ==
    /\ \E fsel \in AppFileSets, w \in WorkTrees : fs = Merge(w, Install(fsel))
    /\ \E n \in ArgNames, t \in ArgTemplates, p \in ArgPaths :
           argv = [name |-> n, template |-> t, path |-> p]
    /\ events = <<>>
    /\ mapping = Idle
    /\ ops = <<>>
    /\ pc = "main"
    /\ cwd = WorkDir
    /\ run = Run0

\* process.exit(code), or the end of the program
Exit(code) ==
    /\ pc' = "exited"
    /\ run' = [run EXCEPT !.status = "exited", !.code = code]

\* index.ts: parse the command line and enter createScriptApp;
\* const appName = scriptAppName || (await this.promptService.askForScriptAppName())
Main ==
    /\ pc = "main"
    /\ IF argv.name # Undefined /\ argv.name # <<>>
       THEN /\ run' = [run EXCEPT !.appName = argv.name]
            /\ pc' = "templates"
            /\ UNCHANGED events
       ELSE /\ events' = Append(events, Ev("prompt", "name", <<>>))
            /\ pc' = "awaitName"
            /\ UNCHANGED run
    /\ UNCHANGED <<fs, mapping, ops, argv, cwd>>

\* a response of the name prompt that is no string (a number, say)
NotAString == <<"number">>

\* isValid in askForScriptAppName
IsValid(scriptAppName) ==
    /\ scriptAppName \notin {Undefined, <<>>, NotAString}
    /\ Trim(scriptAppName) # <<>>

\* an askForScriptAppName that tidies the name it returns
AskForScriptAppNameTrimmed(st, scriptAppName) ==
    IF ~IsValid(scriptAppName)
    THEN [st |-> Emit(LogError(st, "Project name is required.", <<>>), Ev("exit", "1", <<>>)),
          exited |-> TRUE, value |-> Undefined]
    ELSE [st |-> st, exited |-> FALSE, value |-> Trim(scriptAppName)]

\* askForScriptAppName from the prompt's response on: the events, whether the
\* process was exited (with status 1), the value returned
AskForScriptAppName(st, scriptAppName) ==
    IF ~IsValid(scriptAppName)
    THEN [st |-> Emit(LogError(st, "Project name is required.", <<>>), Ev("exit", "1", <<>>)),
          exited |-> TRUE, value |-> Undefined]
    ELSE [st |-> st, exited |-> FALSE, value |-> scriptAppName]

\* the run after askForScriptAppName's outcome r
Named(r) ==
    IF r.exited
    THEN /\ events' = r.st.ev
         /\ pc' = "exited"
         /\ run' = [run EXCEPT !.status = "exited", !.code = 1, !.errorCount = @ + 1]
    ELSE /\ events' = Append(events, Ev("answer", "name", <<r.value>>))
         /\ pc' = "templates"
         /\ run' = [run EXCEPT !.appName = r.value]

AnswerName ==
    /\ pc = "awaitName"
    /\ \E scriptAppName \in NameResponses : Named(AskForScriptAppName(St0, scriptAppName))
    /\ UNCHANGED <<fs, mapping, ops, argv, cwd>>

\* const finalPath = resolvePath(process.cwd(), './' + formatProjectName(appName))
FinalPath(appName) == ResolvePath(cwd, <<".", "/">> \o FormatProjectName(appName))

\* a resolution that takes the caller's template whenever one is given
ResolveTemplateTrusting ==
    /\ pc = "templates"
    /\ IF argv.template = Undefined \/ argv.template = <<>>
       THEN /\ events' = Append(events, Ev("prompt", "template", GetAvailableTemplates(fs)))
            /\ run' = [run EXCEPT !.available = GetAvailableTemplates(fs)]
            /\ pc' = "awaitTemplate"
       ELSE /\ run' = [run EXCEPT !.available = GetAvailableTemplates(fs),
                                  !.template = argv.template]
            /\ pc' = "check"
            /\ UNCHANGED events
    /\ UNCHANGED <<fs, mapping, ops, argv, cwd>>

\* a resolution that makes the project directory as soon as the name is known,
\* ahead of the template prompt
ResolveTemplateCreating ==
    /\ pc = "templates"
    /\ IF argv.template = Undefined \/ argv.template = <<>>
          \/ argv.template \notin Range(GetAvailableTemplates(fs))
       THEN /\ fs' = CreateDirectory(St0, FinalPath(run.appName) \o <<n_src>>).fs
            /\ events' = Append(CreateDirectory(St0, FinalPath(run.appName) \o <<n_src>>).ev,
                                Ev("prompt", "template", GetAvailableTemplates(fs)))
            /\ run' = [run EXCEPT !.available = GetAvailableTemplates(fs)]
            /\ pc' = "awaitTemplate"
       ELSE /\ run' = [run EXCEPT !.available = GetAvailableTemplates(fs),
                                  !.template = argv.template]
            /\ pc' = "check"
            /\ UNCHANGED <<fs, events>>
    /\ UNCHANGED <<mapping, ops, argv, cwd>>

\* getAvailableTemplates(); the template prompt when the given one is not usable
ResolveTemplate ==
    /\ pc = "templates"
    /\ IF argv.template = Undefined \/ argv.template = <<>>
          \/ argv.template \notin Range(GetAvailableTemplates(fs))
       THEN /\ events' = Append(events, Ev("prompt", "template", GetAvailableTemplates(fs)))
            /\ run' = [run EXCEPT !.available = GetAvailableTemplates(fs)]
            /\ pc' = "awaitTemplate"
       ELSE /\ run' = [run EXCEPT !.available = GetAvailableTemplates(fs),
                                  !.template = argv.template]
            /\ pc' = "check"
            /\ UNCHANGED events
    /\ UNCHANGED <<fs, mapping, ops, argv, cwd>>

\* askForTemplate's response: one of the choices, or undefined when cancelled
AnswerTemplate ==
    /\ pc = "awaitTemplate"
    /\ \E r \in Range(run.available) \cup {Undefined} :
        /\ run' = [run EXCEPT !.template = r]
        /\ events' = Append(events, Ev("answer", "template", <<r>>))
    /\ pc' = "check"
    /\ UNCHANGED <<fs, mapping, ops, argv, cwd>>

\* formatProjectName, resolvePath, and the check that the directory does not exist
CheckCollision ==
    /\ pc = "check"
    /\ IF DirectoryExists(fs, FinalPath(run.appName))
       THEN /\ events' = events \o << Ev("error", "Directory already exists:", FinalPath(run.appName)),
                                      Ev("exit", "1", <<>>) >>
            /\ pc' = "exited"
            /\ run' = [run EXCEPT !.finalPath = FinalPath(run.appName), !.status = "exited",
                                  !.code = 1, !.errorCount = @ + 1]
       ELSE /\ run' = [run EXCEPT !.finalPath = FinalPath(run.appName)]
            /\ pc' = "create"
            /\ UNCHANGED events
    /\ UNCHANGED <<fs, mapping, ops, argv, cwd>>

\* a service call's outcome st: the next step, or the exception on its way to index.ts
StepTo(st, next) ==
    /\ fs' = st.fs
    /\ events' = st.ev
    /\ pc' = IF st.err = "none" THEN next ELSE "catch"
    /\ run' = [run EXCEPT !.err = st.err]
    /\ UNCHANGED <<ops, argv, cwd>>

Step(st, next) == StepTo(st, next) /\ UNCHANGED mapping

CreateProjectDirectory ==
    /\ pc = "create"
    /\ Step(CreateDirectory(St0, run.finalPath), "copy")

Scaffolded(st, finalPath) ==
    IF st.err = "none" THEN LogInfo(st, "Scaffolding project in", finalPath) ELSE st

\* a copy step after which the run goes straight to the guidance
CopyTemplateThenDone ==
    /\ pc = "copy"
    /\ IF run.template = Undefined
       THEN Step(Throw(St0, "TypeError"), "finish")
       ELSE Step(Scaffolded(CopyRecursive(St0, GetTemplatePath(run.template), run.finalPath),
                            run.finalPath),
                 "finish")

\* getTemplatePath (path.join throws a TypeError on undefined), copyRecursive, the log
CopyTemplate ==
    /\ pc = "copy"
    /\ IF run.template = Undefined
       THEN Step(Throw(St0, "TypeError"), "update")
       ELSE Step(Scaffolded(CopyRecursive(St0, GetTemplatePath(run.template), run.finalPath),
                            run.finalPath),
                 "update")

\* a unique identifier made of the name as it was typed
UniqueIdAsTyped(appName) == appName \o <<"-">> \o Timestamp

UniqueId(appName) == HyphenateSpaces(ToLowerCase(appName)) \o <<"-">> \o Timestamp

\* the arguments of the call, kept in mapping, and the call
UpdatePlaceholders ==
    /\ pc = "update"
    /\ mapping' = [name |-> run.appName,
                   extra |-> <<Pair(ROOT_IDENTIFIER, UniqueId(run.appName))>>]
    /\ StepTo(UpdateTemplatePlaceholders(St0, run.finalPath, run.appName, mapping'.extra),
              "finish")

\* the completion instructions, logSavingInfo, and the end of the program
Finish ==
    /\ pc = "finish"
    /\ events' = Append(LogSavingInfo(LogInfo(St0, "Done. Now run:", run.finalPath),
                                      run.errorCount).ev,
                        Ev("exit", "0", <<>>))
    /\ Exit(0)
    /\ UNCHANGED <<fs, mapping, ops, argv, cwd>>

\* a catch that logs the error and leaves the process waiting
CatchHanging ==
    /\ pc = "catch"
    /\ events' = Append(events, Ev("error", "An unexpected error occurred:", <<>>))
    /\ pc' = "hung"
    /\ UNCHANGED <<fs, mapping, ops, argv, cwd, run>>

\* a catch that logs the error and lets the program end by itself
CatchNoExit ==
    /\ pc = "catch"
    /\ events' = events \o << Ev("error", "An unexpected error occurred:", <<>>),
                              Ev("exit", "0", <<>>) >>
    /\ Exit(0)
    /\ UNCHANGED <<fs, mapping, ops, argv, cwd>>

\* index.ts catch: a new Logger, its error, process.exit(1)
Catch ==
    /\ pc = "catch"
    /\ events' = events \o << Ev("error", "An unexpected error occurred:", <<>>),
                              Ev("exit", "1", <<>>) >>
    /\ Exit(1)
    /\ UNCHANGED <<fs, mapping, ops, argv, cwd>>

Next ==
    \/ Main
    \/ AnswerName
    \/ ResolveTemplate
    \/ AnswerTemplate
    \/ CheckCollision
    \/ CreateProjectDirectory
    \/ CopyTemplate
    \/ UpdatePlaceholders
    \/ Finish
    \/ Catch

Spec == Init /\ [][Next]_vars

\* Runs started in any working directory: the one of the other runs, the
\* templates directory, a template. Every step is taken once control reaches it
\* and every prompt that is issued is answered.
Cwds == {WorkDir, TemplatesDir, SrcRoot}
AnywhereNames == {Undefined, NameMyApp}
AnywhereTemplates == {Undefined, n_react_ts}

InitAnywhere ==
    /\ \E fsel \in AppFileSets, w \in WorkTrees : fs = Merge(w, Install(fsel))
    /\ \E n \in AnywhereNames, t \in AnywhereTemplates :
           argv = [name |-> n, template |-> t, path |-> Undefined]
    /\ events = <<>>
    /\ mapping = Idle
    /\ ops = <<>>
    /\ pc = "main"
    /\ cwd \in Cwds
    /\ run = Run0

\* the points of the program from which it has a step to take, and the taking of
\* that step: every action of Next leaves its program point
ProgramPoints ==
    {"main", "awaitName", "templates", "awaitTemplate", "check", "create", "copy",
     "update", "finish", "catch"}
Proceed == pc \in ProgramPoints /\ pc' \in (ProgramPoints \cup {"exited"}) \ {pc}

SpecAnywhere == InitAnywhere /\ [][Next]_vars /\ WF_pc(Proceed)

----------------------------------------------------------------------------
(* Properties of the file service, over the calls recorded in ops          *)

IsUpdate(o) == o.op = "updateTemplatePlaceholders"
IsCopy(o) == o.op = "copyRecursive"

\* the paths of f at or below root, and the same relative to root
Under(f, root) == {p \in DOMAIN f : IsPrefix(root, p)}
RelOf(root, p) == SubSeq(p, Len(root) + 1, Len(p))
Rel(f, root) == {RelOf(root, p) : p \in Under(f, root)}

\* d is a directory of f with nothing in it
FreshEmpty(f, d) == IsDirectory(f, d) /\ Under(f, d) = {d}

\* p lies below root through an entry named node_modules
Skipped(root, p) == \E i \in (Len(root) + 1)..Len(p) : p[i] = node_modules

\* how many events of the call o are e
Count(o, e) == Cardinality({i \in o.from..o.to : events[i] = e})
Writes(o, p) == Count(o, Ev("writeFile", "", p))
Diagnostics(o, p) == Count(o, Ev("info", "Updated placeholders in:", p))

TheMapping == AllPlaceholders(mapping.name, mapping.extra)
HasToken(chars, all) == \E i \in 1..Len(all) : Includes(chars, all[i].placeholder)

\* C1: Idempotence of substitution: when updateTemplatePlaceholders runs twice in
\* succession on one tree with one mapping, the second run leaves every file's
\* content as the first run left it, writes no file and emits no
\* 'Updated placeholders in:' diagnostic.
C1_Idempotence ==
    \A k \in 1..(Len(ops) - 1) :
        (IsUpdate(ops[k]) /\ IsUpdate(ops[k + 1]) /\ ops[k].dest = ops[k + 1].dest
            /\ ops[k].err = "none")
        => /\ ops[k + 1].post = ops[k + 1].pre
           /\ \A i \in ops[k + 1].from..ops[k + 1].to :
                 /\ events[i].ev # "writeFile"
                 /\ events[i].msg # "Updated placeholders in:"

\* C2: Structure preservation by copy: after copyRecursive(source, dest) into a
\* freshly created empty destination, the relative paths of the destination are
\* those of the source, and each is a directory in the destination iff it is one
\* in the source.
C2_StructurePreserved ==
    \A k \in 1..Len(ops) :
        (IsCopy(ops[k]) /\ ops[k].err = "none" /\ FreshEmpty(ops[k].pre, ops[k].dest))
        => /\ Rel(ops[k].post, ops[k].dest) = Rel(ops[k].pre, ops[k].src)
           /\ \A r \in Rel(ops[k].pre, ops[k].src) :
                 ops[k].post[ops[k].dest \o r].kind = ops[k].pre[ops[k].src \o r].kind

\* a copy into a fresh empty destination of a source with a file in a subdirectory
C2_Witness ==
    \E k \in 1..Len(ops) :
        /\ IsCopy(ops[k]) /\ ops[k].err = "none" /\ FreshEmpty(ops[k].pre, ops[k].dest)
        /\ IsFile(ops[k].pre, ops[k].src \o <<n_src, n_App_tsx>>)
        /\ IsFile(ops[k].post, ops[k].dest \o <<n_src, n_App_tsx>>)

\* C3: Substitution changes contents only: updateTemplatePlaceholders creates,
\* deletes and renames nothing; the paths and their kinds are the same before and
\* after, and all it does to the filesystem is overwrite the content of files that
\* existed, below its root.
C3_ContentsOnly ==
    \A k \in 1..Len(ops) :
        IsUpdate(ops[k])
        => /\ DOMAIN ops[k].post = DOMAIN ops[k].pre
           /\ \A p \in DOMAIN ops[k].pre :
                 /\ ops[k].post[p].kind = ops[k].pre[p].kind
                 /\ ops[k].post[p] # ops[k].pre[p]
                        => IsFile(ops[k].pre, p) /\ IsPrefix(ops[k].dest, p)
           /\ \A i \in ops[k].from..ops[k].to :
                 /\ events[i].ev \in {"readdir", "readFile", "writeFile", "info"}
                 /\ events[i].ev = "writeFile" => IsFile(ops[k].pre, events[i].path)

\* a pass that overwrote a file
C3_Witness ==
    \E k \in 1..Len(ops) :
        /\ IsUpdate(ops[k])
        /\ \E p \in DOMAIN ops[k].pre : ops[k].post[p] # ops[k].pre[p]
        /\ \E i \in ops[k].from..ops[k].to : events[i].ev = "writeFile"

\* s with every occurrence of a token of the mapping replaced by the token's
\* value, inserted as it is, and every other character kept
RECURSIVE SubstitutedFrom(_, _, _)
SubstitutedFrom(s, all, i) ==
    IF i > Len(s) THEN <<>>
    ELSE IF \E k \in 1..Len(all) : MatchAt(s, all[k].placeholder, i)
         THEN LET k == CHOOSE k \in 1..Len(all) :
                         /\ MatchAt(s, all[k].placeholder, i)
                         /\ \A j \in 1..(k - 1) : ~MatchAt(s, all[j].placeholder, i)
              IN  all[k].value \o SubstitutedFrom(s, all, i + Len(all[k].placeholder))
         ELSE <<s[i]>> \o SubstitutedFrom(s, all, i + 1)
Substituted(s, all) == SubstitutedFrom(s, all, 1)

\* the files of the tree of call o that the pass is to treat
Treated(o) ==
    {p \in Under(o.pre, o.dest) : IsFile(o.pre, p) /\ ~Skipped(o.dest, p) /\ IsTextFile(p)}
Manifests(o) ==
    {p \in Treated(o) : Basename(p) = package_json /\ o.pre[p].content.t = "json"}

\* C5: Generic text policy: a text-eligible file other than package.json that
\* contains a mapping token holds, after the pass, its original content with every
\* occurrence of every token replaced by the token's value and all else
\* unchanged; it is written exactly once, with exactly one diagnostic naming it.
C5_GenericPolicy ==
    \A k \in 1..Len(ops) :
        (IsUpdate(ops[k]) /\ ops[k].err = "none")
        => \A p \in Treated(ops[k]) :
              (/\ Basename(p) # package_json
               /\ ops[k].pre[p].content.t = "text"
               /\ HasToken(ops[k].pre[p].content.chars, TheMapping))
              => /\ ops[k].post[p].content
                      = Text(Substituted(ops[k].pre[p].content.chars, TheMapping))
                 /\ Writes(ops[k], p) = 1
                 /\ Diagnostics(ops[k], p) = 1

\* some string field of v, reached through objects, has a token
RECURSIVE FieldToken(_, _)
FieldToken(v, all) ==
    CASE v.ty = "obj" ->
            \E i \in 1..Len(v.vals) :
                \/ v.vals[i].ty = "str" /\ HasToken(v.vals[i].s, all)
                \/ FieldToken(v.vals[i], all)
      [] v.ty = "arr" -> \E i \in 1..Len(v.vals) : FieldToken(v.vals[i], all)
      [] OTHER -> FALSE

\* some string entry of an array of v has a token
RECURSIVE ArrayEntryToken(_, _)
ArrayEntryToken(v, all) ==
    CASE v.ty = "arr" ->
            \E i \in 1..Len(v.vals) :
                \/ v.vals[i].ty = "str" /\ HasToken(v.vals[i].s, all)
                \/ ArrayEntryToken(v.vals[i], all)
      [] v.ty = "obj" -> \E i \in 1..Len(v.vals) : ArrayEntryToken(v.vals[i], all)
      [] OTHER -> FALSE

\* v with the tokens of every string field replaced by their values
RECURSIVE SubstitutedDoc(_, _)
SubstitutedDoc(v, all) ==
    CASE v.ty = "str" -> JStr(Substituted(v.s, all))
      [] v.ty = "obj" ->
            [v EXCEPT !.vals = [i \in 1..Len(v.vals) |-> SubstitutedDoc(v.vals[i], all)]]
      [] OTHER -> v

\* C6: Manifest policy result: a package.json whose string fields (top-level,
\* nested in objects, scripts.dx-deploy) contain mapping tokens holds, after the
\* pass, the same document with every token in those values replaced by its value
\* (the name tokens by the project name, __CONTENT_ROOT__ by ./dist), serialized
\* with 2-space indentation, written once with one diagnostic.
C6_ManifestResult ==
    \A k \in 1..Len(ops) :
        (IsUpdate(ops[k]) /\ ops[k].err = "none")
        => \A p \in Manifests(ops[k]) :
              (/\ FieldToken(ops[k].pre[p].content.doc, TheMapping)
               /\ ~ArrayEntryToken(ops[k].pre[p].content.doc, TheMapping))
              => /\ ops[k].post[p].content
                      = Json(SubstitutedDoc(ops[k].pre[p].content.doc, TheMapping), 2)
                 /\ Writes(ops[k], p) = 1
                 /\ Diagnostics(ops[k], p) = 1

\* b has the keys and nesting of a, its leaves that are not strings, and its
\* strings but for those that had a token
RECURSIVE SameShape(_, _, _)
SameShape(a, b, all) ==
    CASE a.ty = "obj" ->
            /\ b.ty = "obj" /\ b.keys = a.keys /\ Len(b.vals) = Len(a.vals)
            /\ \A i \in 1..Len(a.vals) : SameShape(a.vals[i], b.vals[i], all)
      [] a.ty = "arr" ->
            /\ b.ty = "arr" /\ Len(b.vals) = Len(a.vals)
            /\ \A i \in 1..Len(a.vals) : SameShape(a.vals[i], b.vals[i], all)
      [] a.ty = "str" -> b.ty = "str" /\ (b.s # a.s => HasToken(a.s, all))
      [] OTHER -> b = a

\* C7: Manifest shape preservation: after substitution a parseable package.json
\* has the same keys at the same nesting as before, every leaf that is not a
\* string is unchanged, and a string leaf differs from the original only if the
\* original contained a mapping token.
C7_ShapePreserved ==
    \A k \in 1..Len(ops) :
        IsUpdate(ops[k])
        => \A p \in Manifests(ops[k]) :
              /\ ops[k].post[p].content.t = "json"
              /\ SameShape(ops[k].pre[p].content.doc, ops[k].post[p].content.doc, TheMapping)

\* a pass that rewrote the manifest with the nested object and the number
C7_Witness ==
    \E k \in 1..Len(ops) :
        /\ IsUpdate(ops[k]) /\ ops[k].err = "none"
        /\ \E p \in Manifests(ops[k]) :
              /\ ops[k].pre[p].content = M_nested
              /\ ops[k].post[p].content # M_nested
              /\ Writes(ops[k], p) = 1

\* the string entries of arrays that had a token are in b as they are in a
RECURSIVE ArrayEntriesKept(_, _, _)
ArrayEntriesKept(a, b, all) ==
    CASE a.ty = "arr" ->
            /\ b.ty = "arr" /\ Len(b.vals) = Len(a.vals)
            /\ \A i \in 1..Len(a.vals) :
                  IF a.vals[i].ty = "str"
                  THEN HasToken(a.vals[i].s, all) => b.vals[i] = a.vals[i]
                  ELSE ArrayEntriesKept(a.vals[i], b.vals[i], all)
      [] a.ty = "obj" ->
            /\ b.ty = "obj" /\ Len(b.vals) = Len(a.vals)
            /\ \A i \in 1..Len(a.vals) : ArrayEntriesKept(a.vals[i], b.vals[i], all)
      [] OTHER -> TRUE

\* C8 as the specification states it: Manifest arrays are not descended into: a
\* string entry of an array in package.json that contains a token is left
\* unchanged, and a manifest whose only tokens are inside arrays is not rewritten.
C8_ArraysNotDescended ==
    \A k \in 1..Len(ops) :
        (IsUpdate(ops[k]) /\ ops[k].err = "none")
        => \A p \in Manifests(ops[k]) :
              /\ ArrayEntriesKept(ops[k].pre[p].content.doc, ops[k].post[p].content.doc,
                                  TheMapping)
              /\ (/\ ArrayEntryToken(ops[k].pre[p].content.doc, TheMapping)
                  /\ ~FieldToken(ops[k].pre[p].content.doc, TheMapping))
                 => Writes(ops[k], p) = 0 /\ ops[k].post[p] = ops[k].pre[p]

\* the string entries of arrays are in b what the replacement loop makes of them
RECURSIVE ArrayEntriesReplaced(_, _, _)
ArrayEntriesReplaced(a, b, all) ==
    CASE a.ty = "arr" ->
            /\ b.ty = "arr" /\ Len(b.vals) = Len(a.vals)
            /\ \A i \in 1..Len(a.vals) :
                  IF a.vals[i].ty = "str"
                  THEN b.vals[i] = JStr(ReplaceEach(a.vals[i].s, all, 1, FALSE).text)
                  ELSE ArrayEntriesReplaced(a.vals[i], b.vals[i], all)
      [] a.ty = "obj" ->
            /\ b.ty = "obj" /\ Len(b.vals) = Len(a.vals)
            /\ \A i \in 1..Len(a.vals) : ArrayEntriesReplaced(a.vals[i], b.vals[i], all)
      [] OTHER -> TRUE

\* C8, amended: Manifest arrays are descended into: a string entry of an array in
\* package.json goes through the same replacement loop as a string field, and a
\* manifest with a token in an array entry is rewritten: one write with 2-space
\* indentation, one diagnostic.
C8_ArraysDescended ==
    \A k \in 1..Len(ops) :
        (IsUpdate(ops[k]) /\ ops[k].err = "none")
        => \A p \in Manifests(ops[k]) :
              /\ ArrayEntriesReplaced(ops[k].pre[p].content.doc, ops[k].post[p].content.doc,
                                      TheMapping)
              /\ ArrayEntryToken(ops[k].pre[p].content.doc, TheMapping)
                 => /\ Writes(ops[k], p) = 1 /\ Diagnostics(ops[k], p) = 1
                    /\ ops[k].post[p].content.indent = 2

\* a pass over the manifest whose only token is in "keywords", for "My App"
C8_Witness ==
    \E k \in 1..Len(ops) :
        /\ IsUpdate(ops[k]) /\ ops[k].err = "none" /\ mapping.name = NameMyApp
        /\ \E p \in Manifests(ops[k]) :
              /\ ops[k].pre[p].content = M_array
              /\ Get(ops[k].post[p].content.doc, "keywords").vals[1] = JStr(NameMyApp)
              /\ Writes(ops[k], p) = 1

\* the allow-list of extensions
AllowList ==
    { <<".","j","s">>, <<".","t","s">>, <<".","j","s","x">>, <<".","t","s","x">>,
      <<".","j","s","o","n">>, <<".","h","t","m","l">>, <<".","c","s","s">>,
      <<".","m","d">>, <<".","t","x","t">>, <<".","e","n","v">>,
      <<".","l","o","c","a","l">> }

\* C9: Selective rewrite: a file whose extension is not in the allow-list (a
\* file with no extension too) is not read, not written and not reported by
\* updateTemplatePlaceholders, whatever its content; it is the same after the
\* pass as before.
C9_SelectiveRewrite ==
    \A k \in 1..Len(ops) :
        IsUpdate(ops[k])
        => \A p \in Under(ops[k].pre, ops[k].dest) :
              (IsFile(ops[k].pre, p) /\ Extname(p) \notin AllowList)
              => /\ ops[k].post[p] = ops[k].pre[p]
                 /\ \A i \in ops[k].from..ops[k].to : events[i].path # p

\* a complete pass over a tree with an image.png that holds a token
C9_Witness ==
    \E k \in 1..Len(ops) :
        /\ IsUpdate(ops[k]) /\ ops[k].err = "none"
        /\ IsFile(ops[k].pre, ops[k].dest \o <<n_image_png>>)
        /\ HasToken(ops[k].pre[ops[k].dest \o <<n_image_png>>].content.chars, TheMapping)
        /\ ops[k].post[ops[k].dest \o <<n_image_png>>].content = T_app

\* C10: Skip rule asymmetry: copyRecursive copies a directory named node_modules,
\* at any depth, with all its contents; updateTemplatePlaceholders never enters
\* it: nothing below a node_modules is listed, read, written or reported, and it
\* is after the pass what it was before.
C10_SkipAsymmetry ==
    \A k \in 1..Len(ops) :
        /\ (IsCopy(ops[k]) /\ ops[k].err = "none")
           => \A p \in Under(ops[k].pre, ops[k].src) :
                 Skipped(ops[k].src, p)
                 => /\ Exists(ops[k].post, ops[k].dest \o RelOf(ops[k].src, p))
                    /\ ops[k].post[ops[k].dest \o RelOf(ops[k].src, p)] = ops[k].pre[p]
        /\ IsUpdate(ops[k])
           => \A p \in Under(ops[k].pre, ops[k].dest) :
                 Skipped(ops[k].dest, p)
                 => /\ ops[k].post[p] = ops[k].pre[p]
                    /\ \A i \in ops[k].from..ops[k].to : events[i].path # p

\* a copy, then a complete pass over the copy, which has a node_modules in a
\* subdirectory, with a text file that holds a token still
C10_Witness ==
    \E k \in 1..(Len(ops) - 1) :
        /\ IsCopy(ops[k]) /\ ops[k].err = "none"
        /\ IsUpdate(ops[k + 1]) /\ ops[k + 1].err = "none" /\ ops[k + 1].dest = ops[k].dest
        /\ ~Exists(ops[k].pre, ops[k].dest \o <<n_src, node_modules, n_notes_txt>>)
        /\ IsFile(ops[k + 1].post, ops[k].dest \o <<n_src, node_modules, n_notes_txt>>)
        /\ ops[k + 1].post[ops[k].dest \o <<n_src, node_modules, n_notes_txt>>].content = T_app

\* no token occurs in the content c: in the text, or in a string value of the
\* document (a field of an object or an entry of an array)
NoToken(c, all) ==
    IF c.t = "text" THEN ~HasToken(c.chars, all)
    ELSE /\ ~FieldToken(c.doc, all)
         /\ ~ArrayEntryToken(c.doc, all)
         /\ c.doc.ty = "str" => ~HasToken(c.doc.s, all)

\* C11: No token, no write: a text-eligible file, package.json or other, in which
\* no mapping token occurs is not written by updateTemplatePlaceholders (not with
\* the same bytes, not as a re-serialized manifest) and gets no diagnostic.
C11_NoTokenNoWrite ==
    \A k \in 1..Len(ops) :
        IsUpdate(ops[k])
        => \A p \in Treated(ops[k]) :
              NoToken(ops[k].pre[p].content, TheMapping)
              => /\ Writes(ops[k], p) = 0
                 /\ Diagnostics(ops[k], p) = 0
                 /\ ops[k].post[p] = ops[k].pre[p]

\* a complete pass over a tree with a manifest and a text file without tokens
C11_Witness ==
    \E k \in 1..Len(ops) :
        /\ IsUpdate(ops[k]) /\ ops[k].err = "none"
        /\ IsFile(ops[k].pre, ops[k].dest \o <<package_json>>)
        /\ ops[k].pre[ops[k].dest \o <<package_json>>].content = M_plain
        /\ ops[k].post[ops[k].dest \o <<package_json>>].content = M_plain
        /\ IsFile(ops[k].pre, ops[k].dest \o <<n_index_html>>)
        /\ ops[k].post[ops[k].dest \o <<n_index_html>>].content = T_plain
        /\ \E i \in ops[k].from..ops[k].to :
              events[i] = Ev("readFile", "", ops[k].dest \o <<package_json>>)

BuiltInTokens == {SCRIPT_APP_NAME, CONTENT_ROOT, WCM_CONTENT_NAME}
\* the caller's pairs without those that reuse a built-in token
OwnPairs(placeholders) == SelectSeq(placeholders, LAMBDA q : q.placeholder \notin BuiltInTokens)

\* C16: Built-in bindings cannot be changed by caller-supplied pairs: whatever the
\* extra pairs (a pair that reuses a built-in token too), every occurrence of
\* __CONTENT_ROOT__ in a processed file ends up as ./dist and every occurrence of
\* __SCRIPT_APP_NAME__ and __WCM_CONTENT_NAME__ as the project name; a later
\* entry does not override or alter the text an earlier entry produced.
C16_BuiltInsKept ==
    \A k \in 1..Len(ops) :
        (IsUpdate(ops[k]) /\ ops[k].err = "none")
        => \A p \in Treated(ops[k]) :
              (Basename(p) # package_json /\ ops[k].pre[p].content.t = "text")
              => ops[k].post[p].content.chars
                   = Substituted(ops[k].pre[p].content.chars,
                                 AllPlaceholders(mapping.name, OwnPairs(mapping.extra)))

----------------------------------------------------------------------------
(* Properties of a run of the tool                                         *)

Collided == \E i \in 1..Len(events) : events[i].msg = "Directory already exists:"
CollisionReport(path) ==
    << Ev("error", "Directory already exists:", path), Ev("exit", "1", <<>>) >>

\* C4: Destination collision: when createScriptApp finds that the destination
\* path it computed exists, it records the error 'Directory already exists:' with
\* exactly that path, the process exits with status 1, and createDirectory,
\* copyRecursive and updateTemplatePlaceholders are not performed: nothing is
\* made, copied, read or written.
C4_Collision ==
    /\ [][(pc = "check" /\ Exists(fs, FinalPath(run.appName)))
            => /\ events' = events \o CollisionReport(FinalPath(run.appName))
               /\ pc' = "exited" /\ run'.status = "exited" /\ run'.code = 1
               /\ fs' = fs]_vars
    /\ [](Collided
            => /\ pc = "exited" /\ run.code = 1
               /\ \A i \in 1..Len(events) :
                     events[i].ev \notin {"mkdir", "copyFile", "readdir", "readFile",
                                          "writeFile", "info"})

\* a run that ended on the collision with ./my-app
C4_Witness ==
    /\ pc = "exited" /\ run.code = 1
    /\ run.finalPath = WorkDir \o <<n_my_app>>
    /\ Len(events) >= 2
    /\ SubSeq(events, Len(events) - 1, Len(events)) = CollisionReport(WorkDir \o <<n_my_app>>)

\* the template names there are: the directories in the templates directory
Templates == {n \in Range(NameOrder) : IsDirectory(fs, TemplatesDir \o <<n>>)}
IsTemplatePrompt(e) == e.ev = "prompt" /\ e.msg = "template"
TemplatePrompts == {i \in 1..Len(events) : IsTemplatePrompt(events[i])}
\* a list of all the template names, each once
FullList(list) == Range(list) = Templates /\ Len(list) = Cardinality(Templates)

\* C12: Template resolution: createScriptApp uses the caller's template, with no
\* template prompt, iff it is one of getAvailableTemplates(); otherwise (absent,
\* empty, not in the list) the run does not fail but calls askForTemplate, once,
\* with the full list, and what that returns is the template given to
\* getTemplatePath.
C12_TemplateResolution ==
    /\ [][pc = "templates"
            => IF argv.template \in Templates
               THEN /\ pc' = "check" /\ events' = events
                    /\ run'.template = argv.template
               ELSE /\ pc' = "awaitTemplate"
                    /\ Len(events') = Len(events) + 1
                    /\ SubSeq(events', 1, Len(events)) = events
                    /\ IsTemplatePrompt(events'[Len(events')])
                    /\ FullList(events'[Len(events')].path)]_vars
    /\ [][pc = "awaitTemplate"
            => /\ pc' = "check"
               /\ events' = Append(events, Ev("answer", "template", <<run'.template>>))]_vars
    /\ [](/\ Cardinality(TemplatePrompts) <= 1
          /\ pc = "copy"
             => IF TemplatePrompts = {}
                THEN run.template = argv.template /\ argv.template \in Templates
                ELSE /\ argv.template \notin Templates
                     /\ events[(CHOOSE i \in TemplatePrompts : TRUE) + 1]
                            = Ev("answer", "template", <<run.template>>))

\* a run given the template "no": the prompt offered react-js and react-ts, and
\* the copy was made from the react-js that was chosen
C12_Witness ==
    /\ pc = "update" /\ argv.template = <<"n","o">>
    /\ run.template = n_react_js
    /\ \E i \in 1..Len(events) : events[i] = Ev("prompt", "template", <<n_react_js, n_react_ts>>)
    /\ IsFile(fs, run.finalPath \o <<n_index_html>>)

\* the events of a run that make, copy, list, read or write something
IsFileEvent(e) == e.ev \in {"mkdir", "copyFile", "readdir", "readFile", "writeFile"}
NothingDone == \A i \in 1..Len(events) : ~IsFileEvent(events[i])
Reported(msg) == \E i \in 1..Len(events) : events[i].ev = "error" /\ events[i].msg = msg
\* the name is empty or only whitespace
Blank(name) == name # Undefined /\ Trim(name) = <<>>

\* C13: Invalid project name is fatal: a name that is empty or only whitespace,
\* from the command line or from the prompt, ends the run with the error
\* 'Project name is required.' and a non-zero exit status, and nothing is
\* created, copied or rewritten: the run never goes on with such a name.
C13_InvalidNameFatal ==
    /\ Blank(run.appName) => FALSE
    /\ (Blank(argv.name) /\ argv.name # <<>> /\ pc # "main")
       => /\ pc = "exited" /\ run.code # 0
          /\ Reported("Project name is required.")
          /\ NothingDone

Guided == \E i \in 1..Len(events) : events[i].ev = "info" /\ events[i].msg = "Done. Now run:"
ErrorsReported == {i \in 1..Len(events) : events[i].ev = "error"}

\* C14: Process exit contract: a run ends with exit status zero exactly when the
\* guidance 'Done. Now run:' has been emitted; a run that meets an invalid name, a
\* collision or a filesystem or manifest fault ends with a non-zero status after
\* at least one error diagnostic, and never emits the guidance.
C14_ExitContract ==
    /\ Guided => pc = "exited" /\ run.code = 0
    /\ pc = "exited"
       => /\ run.code = 0 <=> Guided
          /\ run.code # 0 => ErrorsReported # {}
          /\ events[Len(events)].ev = "exit"
          /\ \A i \in ErrorsReported : i < Len(events)
    /\ (run.err # "none" \/ ErrorsReported # {}) => ~Guided
    /\ run.err # "none" => pc \in {"catch", "exited"}

\* a run that ended on a package.json that does not parse
C14_Witness ==
    /\ pc = "exited" /\ run.code = 1 /\ run.err = "SyntaxError"
    /\ Reported("An unexpected error occurred:")
    /\ \E i \in 1..Len(events) : events[i].ev = "copyFile"

\* C15: The -p/--path option determines where the project is created: in a run
\* started with -p <path>, the destination that is collision-checked, created
\* and filled lies at or under <path>, not under the working directory.
C15_PathOption ==
    (argv.path # Undefined /\ run.finalPath # <<>>)
    => IsPrefix(ResolvePath(cwd, argv.path), run.finalPath)

----------------------------------------------------------------------------
(* SpecLogger: a Logger instance and a caller of its methods.  run is the  *)
(* instance (its errorCount), events the lines it logs, ops the calls.     *)

MaxCalls == 4   \* calls made on the instance

Call(name, st) ==
    [op |-> name, from |-> Len(events) + 1, to |-> Len(st.ev)]

InitLogger ==
    /\ fs = Tree(WorkDir, {})
    /\ events = <<>>
    /\ ops = <<>>
    /\ run = [errorCount |-> 0]
    /\ pc = "logger"
    /\ mapping = Idle /\ argv = Idle /\ cwd = WorkDir

\* log(level, ...args): the line, in the file and (but for debug) on the console
Log(st, level, msg) == Emit(st, Ev(level, msg, <<>>))

Logged(name, st, errorCount) ==
    /\ events' = st.ev
    /\ ops' = Append(ops, Call(name, st))
    /\ run' = [run EXCEPT !.errorCount = errorCount]
    /\ UNCHANGED <<fs, mapping, pc, argv, cwd>>

LoggerInfo ==
    /\ pc = "logger" /\ Len(ops) < MaxCalls
    /\ Logged("info", Log(St0, "info", "message"), run.errorCount)

LoggerSuccess ==
    /\ pc = "logger" /\ Len(ops) < MaxCalls
    /\ Logged("success", Log(St0, "success", "message"), run.errorCount)

LoggerDebug ==
    /\ pc = "logger" /\ Len(ops) < MaxCalls
    /\ Logged("debug", Log(St0, "debug", "message"), run.errorCount)

\* error(): this.errorCount++, then the line
LoggerError ==
    /\ pc = "logger" /\ Len(ops) < MaxCalls
    /\ Logged("error", Log(St0, "error", "message"), run.errorCount + 1)

LoggerLogSavingInfo ==
    /\ pc = "logger" /\ Len(ops) < MaxCalls
    /\ Logged("logSavingInfo", LogSavingInfo(St0, run.errorCount), run.errorCount)

NextLogger ==
    \/ LoggerInfo
    \/ LoggerSuccess
    \/ LoggerDebug
    \/ LoggerError
    \/ LoggerLogSavingInfo

SpecLogger == InitLogger /\ [][NextLogger]_vars

ErrorCalls(k) == {j \in 1..k : ops[j].op = "error"}
Pointer == Ev("info", "Full logs can be found at:", LogFile)

\* C17: Logger error accounting: over any sequence of info, success, debug and
\* error calls on a Logger, logSavingInfo emits 'Full logs can be found at:
\* <file>' iff error() was called at least once before; each error() raises the
\* error count by one and info, success and debug leave it as it is.
C17_ErrorAccounting ==
    /\ run.errorCount = Cardinality(ErrorCalls(Len(ops)))
    /\ \A k \in 1..Len(ops) :
          IF ops[k].op = "logSavingInfo"
          THEN IF ErrorCalls(k) # {}
               THEN ops[k].to = ops[k].from /\ events[ops[k].from] = Pointer
               ELSE ops[k].to < ops[k].from
          ELSE /\ ops[k].to = ops[k].from
               /\ events[ops[k].from] = Ev(ops[k].op, "message", <<>>)

\* info, error, then a logSavingInfo that pointed at the log file
C17_Witness ==
    /\ Len(ops) >= 3
    /\ ops[1].op = "info" /\ ops[2].op = "error" /\ ops[3].op = "logSavingInfo"
    /\ events[Len(events)] = Pointer
    /\ run.errorCount = 1

\* C18: Log pointer at end of execution: in a run in which an error diagnostic
\* was emitted (collision, invalid name, unexpected fault), the message 'Full
\* logs can be found at:' is emitted before the process terminates.
C18_LogPointer ==
    (pc = "exited" /\ ErrorsReported # {})
    => \E i \in 1..Len(events) : events[i] = Pointer

----------------------------------------------------------------------------
(* SpecPrompt: the prompt service called as its unit tests call it, with   *)
(* the prompts library returning any response.                             *)

MaxAsks == 3   \* calls made on the service

n_padded == <<" ">> \o NameMyApp \o <<" ">>
AnyResponses == {Undefined, <<>>, NotAString, <<" ">>, <<"\t", " ">>, n_app, n_padded, NameDollar}

InitPrompt ==
    /\ fs = Tree(WorkDir, {})
    /\ events = <<>>
    /\ ops = <<>>
    /\ run = [errorCount |-> 0]
    /\ pc = "prompt"
    /\ mapping = Idle /\ argv = Idle /\ cwd = WorkDir

Asked(response, r) ==
    /\ events' = r.st.ev
    /\ ops' = Append(ops, [op |-> "askForScriptAppName", response |-> response,
                           exited |-> r.exited, value |-> r.value,
                           from |-> Len(events) + 1, to |-> Len(r.st.ev)])
    /\ run' = [run EXCEPT !.errorCount = IF r.exited THEN @ + 1 ELSE @]
    /\ UNCHANGED <<fs, mapping, pc, argv, cwd>>

CallAskForScriptAppName ==
    /\ pc = "prompt" /\ Len(ops) < MaxAsks
    /\ \E response \in AnyResponses : Asked(response, AskForScriptAppName(St0, response))

CallValidateScriptAppName ==
    /\ pc = "prompt" /\ Len(ops) < MaxAsks
    /\ \E name \in AnyResponses \ {NotAString} :
          ops' = Append(ops, [op |-> "validateScriptAppName", response |-> name,
                              valid |-> ValidateScriptAppName(name)])
    /\ UNCHANGED <<fs, events, mapping, pc, argv, cwd, run>>

NextPrompt ==
    \/ CallAskForScriptAppName
    \/ CallValidateScriptAppName

SpecPrompt == InitPrompt /\ [][NextPrompt]_vars

\* C19: askForScriptAppName outcome: when the entered value is undefined, empty,
\* not a string or only whitespace, the service logs the error 'Project name is
\* required.' and exits the process with status 1; otherwise it returns the
\* entered string as it is, not trimmed, not reformatted.
C19_AskOutcome ==
    \A k \in 1..Len(ops) :
        ops[k].op = "askForScriptAppName"
        => IF \/ ops[k].response \in {Undefined, <<>>, NotAString}
              \/ \A i \in 1..Len(ops[k].response) : ops[k].response[i] \in WhiteSpace
           THEN /\ ops[k].exited
                /\ SubSeq(events, ops[k].from, ops[k].to)
                     = << Ev("error", "Project name is required.", <<>>),
                          Ev("exit", "1", <<>>) >>
           ELSE /\ ~ops[k].exited
                /\ ops[k].value = ops[k].response
                /\ ops[k].to < ops[k].from

\* " My App " entered and returned with its spaces, and a blank entry refused
C19_Witness ==
    \E k, j \in 1..Len(ops) :
        /\ ops[k].op = "askForScriptAppName" /\ ops[k].response = n_padded
        /\ ops[k].value = n_padded /\ ~ops[k].exited
        /\ ops[j].op = "askForScriptAppName" /\ ops[j].response = <<"\t", " ">>
        /\ ops[j].exited

\* C20: Project-name character restriction: a project name from which a project
\* is created (it reaches formatProjectName and the placeholder mapping), given
\* on the command line or entered at the prompt, is not empty and has only ASCII
\* letters, digits, underscores and hyphens: validateScriptAppName returns true
\* for it.
C20_NameCharacters ==
    (pc \in {"create", "copy", "update", "finish"} \/ Guided)
    => /\ run.appName # <<>>
       /\ \A i \in 1..Len(run.appName) : run.appName[i] \in NameChars

----------------------------------------------------------------------------
(* Further properties of a run of the tool                                 *)

\* positions of the log of a run where e stands, and where a file-system event
\* of one of the kinds evs on a path at or below root stands
At(e) == {i \in 1..Len(events) : events[i] = e}
Touching(evs, root) ==
    {i \in 1..Len(events) : events[i].ev \in evs /\ IsPrefix(root, events[i].path)}

\* the package.json at the root of the project, when it does not parse
ProjectManifest == run.finalPath \o <<package_json>>
Unparseable == IsFile(fs, ProjectManifest) /\ ~JSONParse(fs[ProjectManifest].content).ok
FileEvents == {i \in 1..Len(events) : IsFileEvent(events[i])}

\* C21: Malformed manifest is fatal: when the substitution walk reaches a
\* package.json that cannot be parsed, updateTemplatePlaceholders aborts with an
\* error nothing in the engine catches; the file is not written, no file later in
\* the walk is processed, and the run ends with a non-zero exit status.
C21_MalformedManifestFatal ==
    /\ [][(pc = "update" /\ Unparseable)
            => /\ pc' = "catch" /\ run'.err = "SyntaxError"
               /\ DOMAIN fs' = DOMAIN fs /\ fs'[ProjectManifest] = fs[ProjectManifest]
               /\ events'[Len(events')] = Ev("readFile", "", ProjectManifest)
               /\ \A i \in (Len(events) + 1)..Len(events') :
                     events'[i] # Ev("writeFile", "", ProjectManifest)
               /\ \A p \in DOMAIN fs :
                     (\A i \in (Len(events) + 1)..Len(events') :
                         events'[i] # Ev("readFile", "", p))
                     => fs'[p] = fs[p]]_vars
    /\ [][pc = "catch" => pc' = "exited" /\ run'.code # 0 /\ fs' = fs]_vars

\* a run that ended on the package.json that does not parse: index.html before
\* it rewritten, src/App.tsx behind it not read and as it was copied
C21_Witness ==
    /\ pc = "exited" /\ run.code = 1 /\ run.err = "SyntaxError"
    /\ Unparseable
    /\ Touching({"writeFile"}, run.finalPath) = At(Ev("writeFile", "", run.finalPath \o <<n_index_html>>))
    /\ Touching({"writeFile"}, run.finalPath) # {}
    /\ IsFile(fs, run.finalPath \o <<n_src, n_App_tsx>>)
    /\ fs[run.finalPath \o <<n_src, n_App_tsx>>].content = T_twice
    /\ \A i \in 1..Len(events) :
          events[i] # Ev("readFile", "", run.finalPath \o <<n_src, n_App_tsx>>)

\* the positions of a name that leave a character in the identifier: every one
\* but a whitespace that follows a whitespace
Leaving(s) == {i \in 1..Len(s) : s[i] \in WhiteSpace => (i = 1 \/ s[i-1] \notin WhiteSpace)}
NthOf(S, k) == CHOOSE i \in S : Cardinality({j \in S : j <= i}) = k
LowerHyphenated(s) ==
    [k \in 1..Cardinality(Leaving(s)) |->
        IF s[NthOf(Leaving(s), k)] \in WhiteSpace THEN "-"
        ELSE ToLowerChar(s[NthOf(Leaving(s), k)])]

\* C22: Uniqueness token: createScriptApp calls updateTemplatePlaceholders with
\* exactly one extra pair, whose token is __ROOT_IDENTIFIER__ and whose value is
\* the project name in lowercase with every whitespace run replaced by one hyphen,
\* then a hyphen and the timestamp in decimal; the value holds no uppercase letter
\* and no whitespace.
C22_UniquenessToken ==
    mapping # Idle =>
        /\ mapping.name = run.appName
        /\ Len(mapping.extra) = 1
        /\ mapping.extra[1].placeholder = ROOT_IDENTIFIER
        /\ mapping.extra[1].value = LowerHyphenated(run.appName) \o <<"-">> \o Timestamp
        /\ \A i \in 1..Len(mapping.extra[1].value) :
              /\ mapping.extra[1].value[i] \notin WhiteSpace
              /\ \A j \in 1..Len(UpperCase) : mapping.extra[1].value[i] # UpperCase[j]

\* the call was made for a name with an uppercase letter and a run of two
\* whitespace characters
C22_Witness ==
    /\ mapping # Idle /\ mapping.name = NameSpaced
    /\ mapping.extra[1].value = <<"a", "-", "b", "-">> \o Timestamp

----------------------------------------------------------------------------
(* Further properties of the file service                                  *)

\* the environment files of the tree of call o that a walk comes to
EnvNames == {n_env, n_env_local}
EnvFiles(o) ==
    {p \in Under(o.pre, o.dest) :
        IsFile(o.pre, p) /\ ~Skipped(o.dest, p) /\ Basename(p) \in EnvNames}

\* C23: Environment files are text-eligible: a file named .env and a file named
\* .env.local are both classified as text-eligible, so a pass reads them and
\* replaces the tokens they hold: one that holds a token is read and written.
C23_EnvFilesEligible ==
    \A k \in 1..Len(ops) :
        (IsUpdate(ops[k]) /\ ops[k].err = "none")
        => \A p \in EnvFiles(ops[k]) :
              /\ IsTextFile(p)
              /\ Count(ops[k], Ev("readFile", "", p)) = 1
              /\ HasToken(ops[k].pre[p].content.chars, TheMapping) => Writes(ops[k], p) = 1

\* positions of the log of a run
Prompts(what) == {i \in 1..Len(events) : events[i].ev = "prompt" /\ events[i].msg = what}
Answers(what) == {i \in 1..Len(events) : events[i].ev = "answer" /\ events[i].msg = what}
Mutations == {i \in 1..Len(events) : events[i].ev \in {"mkdir", "copyFile", "writeFile"}}
AnsweredBetween(what, j, i) == \E k \in Answers(what) : j < k /\ k < i

\* C24: Prompt ordering: a run issues at most one name prompt and at most one
\* template prompt; the name prompt has completed before the template prompt
\* starts; every prompt has completed before the first filesystem mutation.
C24_PromptOrdering ==
    /\ Cardinality(Prompts("name")) <= 1
    /\ Cardinality(Prompts("template")) <= 1
    /\ \A j \in Prompts("name"), i \in Prompts("template") : AnsweredBetween("name", j, i)
    /\ \A what \in {"name", "template"} :
          \A j \in Prompts(what), i \in Mutations : AnsweredBetween(what, j, i)

\* a run that asked for both and went on to write files
C24_Witness ==
    /\ Prompts("name") # {} /\ Prompts("template") # {}
    /\ \E i \in Mutations : events[i].ev = "writeFile"

Before(S, T) == \A i \in S, j \in T : i < j
Successful == pc = "exited" /\ run.code = 0
TemplateRoot == GetTemplatePath(run.template)

\* C25: Step ordering of a successful run: the collision check, the creation of
\* the destination, the copy of the whole tree, the substitution pass and the
\* guidance happen in this order, each once, none skipped.
C25_StepOrdering ==
    /\ [][(pc = "check" /\ pc' # "exited")
            => ~Exists(fs, run'.finalPath) /\ events' = events /\ pc' = "create"]_vars
    /\ [](Successful =>
            /\ Cardinality(At(Ev("mkdir", "", run.finalPath))) = 1
            /\ Cardinality(At(Ev("info", "Created directory:", run.finalPath))) = 1
            /\ Cardinality(At(Ev("readdir", "", TemplateRoot))) = 1
            /\ Cardinality(At(Ev("info", "Scaffolding project in", run.finalPath))) = 1
            /\ Cardinality(At(Ev("readdir", "", run.finalPath))) = 1
            /\ Cardinality(At(Ev("info", "Done. Now run:", run.finalPath))) = 1
            /\ Before(At(Ev("mkdir", "", run.finalPath)),
                      At(Ev("info", "Created directory:", run.finalPath)))
            /\ Before(At(Ev("info", "Created directory:", run.finalPath)),
                      Touching({"readdir"}, TemplateRoot)
                        \cup Touching({"copyFile"}, run.finalPath)
                        \cup (Touching({"mkdir"}, run.finalPath)
                                \ At(Ev("mkdir", "", run.finalPath))))
            /\ Before(Touching({"readdir"}, TemplateRoot)
                        \cup Touching({"copyFile", "mkdir"}, run.finalPath),
                      At(Ev("info", "Scaffolding project in", run.finalPath)))
            /\ Before(At(Ev("info", "Scaffolding project in", run.finalPath)),
                      Touching({"readdir", "readFile", "writeFile", "info"}, run.finalPath)
                        \ (At(Ev("info", "Created directory:", run.finalPath))
                             \cup At(Ev("info", "Scaffolding project in", run.finalPath))))
            /\ Before(Touching({"readdir", "readFile", "writeFile"}, run.finalPath)
                        \cup {i \in 1..Len(events) : events[i].msg = "Updated placeholders in:"},
                      At(Ev("info", "Done. Now run:", run.finalPath)))
            /\ Rel(fs, run.finalPath) = Rel(fs, TemplateRoot))

\* a successful run whose template has a file in src and that rewrote a file
C25_Witness ==
    /\ Successful
    /\ IsFile(fs, run.finalPath \o <<n_src, n_App_tsx>>)
    /\ Touching({"writeFile"}, run.finalPath) # {}

\* C26: Termination: for every finite template tree and every working
\* directory, once each issued prompt is answered, a run reaches a terminal state,
\* completed or aborted with a non-zero status; the recursive copy and the walk
\* terminate.
C26_Termination == <>(pc = "exited" /\ run.status = "exited" /\ run.code \in {0, 1})

\* a run started inside the template it copies: the copy went into its own
\* output until a path was too long, and the run ended
C26_Witness ==
    /\ pc = "exited" /\ run.code = 1 /\ run.err = "ENAMETOOLONG"
    /\ cwd = SrcRoot
    /\ IsDirectory(fs, run.finalPath \o <<n_my_app>>)

\* the templates directory of f: its paths and what they hold
TemplatesTree(f) == [p \in Under(f, TemplatesDir) |-> f[p]]

\* C27: Templates are read-only: for every run, whatever the project name and
\* the working directory, successful or aborted, the templates directory tree is
\* after the run what it was before: no step of a run changes it.
C27_TemplatesReadOnly == [][TemplatesTree(fs') = TemplatesTree(fs)]_vars

----------------------------------------------------------------------------
(* Further properties of the file service, continued                       *)

\* no value of the mapping holds a token of the mapping: what one pair inserts no
\* other pair replaces
ValuesFreeOfTokens(all) == \A i \in 1..Len(all) : ~HasToken(all[i].value, all)

\* C28: Literal insertion of replacement values: at each of the three places
\* where a token is replaced (the deploy script, a manifest's string fields, a
\* text file's content) the text put in is exactly the mapping's value, whatever
\* the value is, also one with $&, $$, $1 or the like in it.
C28_LiteralInsertion ==
    \A k \in 1..Len(ops) :
        (IsUpdate(ops[k]) /\ ops[k].err = "none" /\ ValuesFreeOfTokens(TheMapping))
        => /\ \A p \in Treated(ops[k]) :
                (Basename(p) # package_json /\ ops[k].pre[p].content.t = "text")
                => ops[k].post[p].content.chars
                     = Substituted(ops[k].pre[p].content.chars, TheMapping)
           /\ \A p \in Manifests(ops[k]) :
                ~ArrayEntryToken(ops[k].pre[p].content.doc, TheMapping)
                => ops[k].post[p].content.doc
                     = SubstitutedDoc(ops[k].pre[p].content.doc, TheMapping)

\* the deploy script of a manifest, when it is a string
HasDeployScript(doc) ==
    /\ HasKey(doc, "scripts") /\ HasKey(Get(doc, "scripts"), "dx-deploy")
    /\ Get(Get(doc, "scripts"), "dx-deploy").ty = "str"
DeployText(doc) == Get(Get(doc, "scripts"), "dx-deploy").s
\* the package.json branch of processFile without its dedicated step
WalkOnly(doc, all) == GenericStep([pkg |-> doc, updated |-> FALSE, err |-> "none"], all)

\* C29: The deploy-script special case is equivalent to the generic walk: the
\* final scripts.dx-deploy is what one application of the generic string
\* substitution gives any other string field with the same original text, and
\* the decision to rewrite the manifest is the one taken if the dedicated step
\* were absent (which raises no error of its own).
C29_DeployEquivalent ==
    \A k \in 1..Len(ops) :
        IsUpdate(ops[k])
        => /\ ops[k].err # "TypeError"
           /\ ops[k].err = "none"
              => \A p \in Manifests(ops[k]) :
                    /\ Writes(ops[k], p) = 1
                         <=> WalkOnly(ops[k].pre[p].content.doc, TheMapping).updated
                    /\ HasDeployScript(ops[k].pre[p].content.doc)
                       => DeployText(ops[k].post[p].content.doc)
                            = ValueLoop(DeployText(ops[k].pre[p].content.doc), TheMapping).text

----------------------------------------------------------------------------
(* Further properties of a run of the tool, continued                      *)

\* C30: Copy source is always an enumerated template: in every run that reaches
\* the copy step the source given to copyRecursive is getTemplatePath(t) for a t
\* of getAvailableTemplates(), whatever the template prompt returned (cancelled,
\* empty list); and a run that aborts because no template was resolved has
\* created no destination directory.
C30_CopySource ==
    /\ Touching({"readdir"}, TemplatesDir) \ At(Ev("readdir", "", TemplatesDir)) # {}
       => /\ run.template \in Range(GetAvailableTemplates(fs))
          /\ \A i \in Touching({"readdir"}, TemplatesDir) :
                events[i].path = TemplatesDir \/ IsPrefix(TemplateRoot, events[i].path)
    /\ (pc \in {"catch", "exited"} /\ run.template = Undefined)
       => Touching({"mkdir"}, WorkDir) = {}

=============================================================================
